---- MODULE Spec2Model ----
(***************************************************************************)
(* Model of src/tax.py: the Streamlit tax-expense tracker.                 *)
(*                                                                         *)
(* Every run of main() is one action.  The state is what survives a run:   *)
(* st.session_state, the Firebase auth accounts, the user's Firestore      *)
(* document and expenses collection, and (in `view`) what the run drew.    *)
(*                                                                         *)
(* Money.  The program computes with Python floats; the model computes     *)
(* with exact rationals, held as integer multiples of 1/Unit rand.  Every  *)
(* amount entered is a multiple of half a rand, so every product by a      *)
(* rate (0.18 .. 0.45), by 0.275 and by 12 * 0.25 is a whole number of     *)
(* 1/Unit rand and nothing is rounded.  Rates are held as whole percents.  *)
(***************************************************************************)
EXTENDS Integers, Sequences, FiniteSets, Bags, TLC

VARIABLES
    session_state,  \* st.session_state: NoUser, or the 'user' entry
    accounts,       \* Firebase auth: the emails that have an account
    users,          \* Firestore users/{uid}: NoDoc, or the saved details
    expenses,       \* Firestore users/{uid}/expenses: a bag of expense records
    view,           \* what the last run of main() displayed
    calls           \* a pair of direct calls of calculate_tax_bracket

vars == <<session_state, accounts, users, expenses, view, calls>>

----------------------------------------------------------------------------
\* Representation of money

\* 1 rand = Unit model units (a quarter of a cent).
Unit == 4 * 100

\* x rand, in model units.
R(x) == x * Unit

\* Half a rand, in model units: the grain of the amounts entered.
HalfRand == Unit \div 2

\* x * p / 100 for a percentage p, exact when 100 divides x * p; the product
\* is split so that no intermediate value leaves TLC's 32-bit integers.
Pct(x, p) == (x \div 100) * p + ((x % 100) * p) \div 100

\* x * m / 1000 (per mille), exact when 1000 divides x * m.
PerMille(x, m) == (x \div 1000) * m + ((x % 1000) * m) \div 1000

----------------------------------------------------------------------------
\* calculate_tax_bracket

\* float('inf'), the upper bound of the top bracket.
INF == -1

\* The table with the second row's base tax mistyped (42687 for 42678).
tax_brackets_mistyped ==
    << <<1,       237100,  18, 0>>,
       <<237101,  370500,  26, 42687>>,
       <<370501,  512800,  31, 77362>>,
       <<512801,  673000,  36, 121475>>,
       <<673001,  857900,  39, 179147>>,
       <<857901,  1817000, 41, 251258>>,
       <<1817001, INF,     45, 644489>> >>

\* (min_income, max_income, rate, base_tax): bounds and base tax in rand, the
\* rate in percent.
tax_brackets ==
    << <<1,       237100,  18, 0>>,
       <<237101,  370500,  26, 42678>>,
       <<370501,  512800,  31, 77362>>,
       <<512801,  673000,  36, 121475>>,
       <<673001,  857900,  39, 179147>>,
       <<857901,  1817000, 41, 251258>>,
       <<1817001, INF,     45, 644489>> >>

\* min_income <= income <= max_income, for one row of the table.
InBracket(b, income) ==
    /\ R(b[1]) <= income
    /\ (b[2] = INF \/ income <= R(b[2]))

\* The row's tax without the "+ 1": base_tax + (income - min_income) * rate.
BracketTax_no_unit(b, income) == R(b[4]) + Pct(income - R(b[1]), b[3])

\* The row's tax with the rate applied to the whole income.
BracketTax_whole_income(b, income) == R(b[4]) + Pct(income, b[3])

\* base_tax + (income - min_income + 1) * rate, for one row of the table.
BracketTax(b, income) == R(b[4]) + Pct(income - R(b[1]) + R(1), b[3])

\* The for loop: the first row that contains income decides; (0, 0) when the
\* loop ends without a match.  The result is the pair (tax, rate).
RECURSIVE ScanBrackets(_, _)
ScanBrackets(i, income) ==
    IF i > Len(tax_brackets) THEN <<0, 0>>
    ELSE IF InBracket(tax_brackets[i], income)
         THEN <<BracketTax(tax_brackets[i], income), tax_brackets[i][3]>>
         ELSE ScanBrackets(i + 1, income)

calculate_tax_bracket(income) == ScanBrackets(1, income)

----------------------------------------------------------------------------
\* Python built-ins used by main()

\* max(a, b)
Max(a, b) == IF a >= b THEN a ELSE b

\* min(a, b, c)
Min3(a, b, c) ==
    LET ab == IF b < a THEN b ELSE a
    IN  IF c < ab THEN c ELSE ab

\* dict.get(key, 0)
Get(d, key) == IF key \in DOMAIN d THEN d[key] ELSE 0

\* sum(e['amount'] for e in B), B a bag of expense records, S its support.
RECURSIVE SumAmounts(_, _)
SumAmounts(B, S) ==
    IF S = {} THEN 0
    ELSE LET e == CHOOSE x \in S : TRUE
         IN  CopiesIn(e, B) * e.amount + SumAmounts(B, S \ {e})

\* sum(e['amount'] for e in expenses_data)
SumAll(B) == SumAmounts(B, BagToSet(B))

\* sum(e['amount'] for e in expenses_data if e['type'] == t)
SumOfType(B, t) == SumAmounts(B, {e \in BagToSet(B) : e.type = t})

----------------------------------------------------------------------------
\* State of the stores

\* The emails a visitor types.  user.uid is modelled by the email itself.
Emails == {"u1"}

\* `user_ref.get().to_dict() or {}` of a document that was never saved.
NoDoc == [k \in {} |-> 0]

\* st.session_state without a 'user' entry.
NoUser == [k \in {} |-> 0]

\* 'user' in st.session_state
LoggedIn == "user" \in DOMAIN session_state

\* user_id = st.session_state.user['localId']
user_id == session_state["user"].localId

\* No direct call of calculate_tax_bracket is in progress.
NoCalls == [phase |-> "none"]

\* The amounts typed into the income form (st.number_input, min_value=0.0).
GrossInputs ==
    {0, R(50000), R(100000), R(237100) + HalfRand, R(237101), R(300000),
     R(1000000), R(2000000)}
RetirementInputs == {0, R(80000), R(400000)}
MedicalInputs == {0, R(1000)}
WorkFromHomeInputs == {0, HalfRand}
FeesInputs == {0, R(2000)}

\* The expense types and amounts chosen in the expense form.
ExpenseTypes == {"Transport", "Home Office", "Other"}
ExpenseAmounts == {R(1500), R(250) + HalfRand}

\* At most MaxExpenses expenses are added to a user's collection.
MaxExpenses == 2

Init ==
    /\ session_state = NoUser
    /\ accounts \in SUBSET Emails
    /\ users = [u \in Emails |-> NoDoc]
    /\ expenses = [u \in Emails |-> EmptyBag]
    /\ view = [page |-> "none"]
    /\ calls = NoCalls

----------------------------------------------------------------------------
\* main(): the authentication block (runs without a 'user' entry)

\* A run that only draws the login screen.
LoginScreen ==
    /\ ~LoggedIn
    /\ view' = [page |-> "Login"]
    /\ UNCHANGED <<session_state, accounts, users, expenses, calls>>

\* The Login button without the lookup: the entry is stored for any email.
Login_no_lookup ==
    /\ ~LoggedIn
    /\ \E email \in Emails :
        /\ session_state' = [user |-> [localId |-> email, email |-> email]]
        /\ view' = [page |-> "Login", message |-> "Logged in successfully!"]
    /\ UNCHANGED <<accounts, users, expenses, calls>>

\* The Login button: auth.get_user_by_email(email) decides; the password is
\* not looked at.
Login ==
    /\ ~LoggedIn
    /\ \E email \in Emails :
        IF email \in accounts
        THEN /\ session_state' = [user |-> [localId |-> email, email |-> email]]
             /\ view' = [page |-> "Login", message |-> "Logged in successfully!"]
        ELSE /\ session_state' = session_state
             /\ view' = [page |-> "Login", message |-> "Login failed"]
    /\ UNCHANGED <<accounts, users, expenses, calls>>

\* The Sign Up button: auth.create_user raises for an email that has an
\* account and for a password Firebase refuses.
SignUp ==
    /\ ~LoggedIn
    /\ \E email \in Emails, passwordOk \in BOOLEAN :
        IF passwordOk /\ email \notin accounts
        THEN /\ accounts' = accounts \cup {email}
             /\ view' = [page |-> "Login", message |-> "Account created! Please login."]
        ELSE /\ accounts' = accounts
             /\ view' = [page |-> "Login", message |-> "Sign up failed"]
    /\ UNCHANGED <<session_state, users, expenses, calls>>

\* The Logout button: the entry is deleted and the script reruns.
Logout ==
    /\ LoggedIn
    /\ session_state' = NoUser
    /\ view' = [page |-> "Login"]
    /\ UNCHANGED <<accounts, users, expenses, calls>>

----------------------------------------------------------------------------
\* main(): the pages (run with a 'user' entry).  A run reads the sidebar's
\* page, and the report type on Reports, as inputs.

\* user_ref.get().to_dict() or {}
user_data == users[user_id]

\* [doc.to_dict() for doc in user_ref.collection('expenses').stream()], as a
\* bag: of an expense only its type and amount are modelled (description,
\* date, receipt_url and timestamp are displayed, never computed with).
expenses_data == expenses[user_id]

\* Dashboard: the metrics of the expenses (the month's total and the charts
\* depend on dates and are not modelled).
Dashboard ==
    /\ LoggedIn
    /\ view' = IF expenses_data # EmptyBag
               THEN [page |-> "Dashboard",
                     total_expenses |-> SumAll(expenses_data),
                     count |-> BagCardinality(expenses_data)]
               ELSE [page |-> "Dashboard"]
    /\ UNCHANGED <<session_state, accounts, users, expenses, calls>>

\* Income & Deductions: the form; "Save Details" writes its five fields.
IncomeAndDeductions ==
    /\ LoggedIn
    /\ \/ /\ view' = [page |-> "Income & Deductions"]
          /\ users' = users
       \/ \E gross_income \in GrossInputs,
             retirement_contributions \in RetirementInputs,
             medical_aid_contributions \in MedicalInputs,
             work_from_home \in WorkFromHomeInputs,
             professional_fees \in FeesInputs :
            /\ users' = [users EXCEPT ![user_id] =
                   [gross_income |-> gross_income,
                    retirement_contributions |-> retirement_contributions,
                    medical_aid_contributions |-> medical_aid_contributions,
                    work_from_home |-> work_from_home,
                    professional_fees |-> professional_fees]]
            /\ view' = [page |-> "Income & Deductions",
                        message |-> "Details saved successfully!"]
    /\ UNCHANGED <<session_state, accounts, expenses, calls>>

\* Expenses: the form; "Add Expense" adds one document; the page then lists
\* the collection.
Expenses ==
    /\ LoggedIn
    /\ \/ expenses' = expenses
       \/ /\ BagCardinality(expenses_data) < MaxExpenses
          /\ \E expense_type \in ExpenseTypes, expense_amount \in ExpenseAmounts :
                expenses' = [expenses EXCEPT ![user_id] =
                    @ (+) SetToBag({[type |-> expense_type, amount |-> expense_amount]})]
    /\ view' = [page |-> "Expenses", listed |-> expenses'[user_id]]
    /\ UNCHANGED <<session_state, accounts, users, calls>>

\* Tax Calculator: total_deductions
total_deductions(data) ==
    Get(data, "retirement_contributions")
        + Get(data, "medical_aid_contributions")
        + Get(data, "work_from_home")
        + Get(data, "professional_fees")

\* taxable_income without the floor at zero.
taxable_income_unfloored(gross_income, deductions) == gross_income - deductions

\* Tax Calculator: taxable_income
taxable_income(gross_income, deductions) == Max(0, gross_income - deductions)

\* Tax Calculator: final_tax
final_tax(taxable) == Max(0, calculate_tax_bracket(taxable)[1])

TaxCalculator ==
    /\ LoggedIn
    /\ LET gross_income == Get(user_data, "gross_income")
           estimate     == calculate_tax_bracket(gross_income)
           deductions   == total_deductions(user_data)
           taxable      == taxable_income(gross_income, deductions)
       IN  view' = [page |-> "Tax Calculator",
                    gross_income |-> gross_income,
                    tax_rate |-> estimate[2],
                    tax_amount |-> estimate[1],
                    total_deductions |-> deductions,
                    taxable_income |-> taxable,
                    final_tax |-> final_tax(taxable)]
    /\ UNCHANGED <<session_state, accounts, users, expenses, calls>>

\* Reports / Tax Summary: tax_summary
tax_summary(data, exps) ==
    [gross_income |-> Get(data, "gross_income"),
     tax_rate |-> calculate_tax_bracket(Get(data, "gross_income"))[2],
     estimated_tax |-> calculate_tax_bracket(Get(data, "gross_income"))[1],
     deductions |->
        [Retirement |-> Get(data, "retirement_contributions"),
         MedicalAid |-> Get(data, "medical_aid_contributions"),
         WorkFromHome |-> Get(data, "work_from_home"),
         ProfessionalFees |-> Get(data, "professional_fees"),
         OtherExpenses |-> SumAll(exps)]]

\* retirement_limit without the 27.5% limit.
retirement_limit_no_percentage(data) ==
    Min3(Get(data, "retirement_contributions"),
         Get(data, "retirement_contributions"),
         R(350000))

\* Reports / Deductions Overview: retirement_limit
retirement_limit(data) ==
    Min3(Get(data, "retirement_contributions"),
         PerMille(Get(data, "gross_income"), 275),
         R(350000))

\* Reports / Deductions Overview: medical_credit
medical_credit(data) == Pct(Get(data, "medical_aid_contributions") * 12, 25)

\* Reports / Deductions Overview: deductions_summary
deductions_summary(data, exps) ==
    [RetirementContributions |-> retirement_limit(data),
     MedicalAidCredits |-> medical_credit(data),
     WorkFromHome |-> Get(data, "work_from_home"),
     ProfessionalFees |-> Get(data, "professional_fees"),
     TravelExpenses |-> SumOfType(exps, "Transport"),
     HomeOfficeExpenses |-> SumOfType(exps, "Home Office")]

\* generate_detailed_pdf(user_data, expenses, tax_summary) reads
\* tax_summary['tax_rate'], ['estimated_tax'] and ['deductions'].
generate_detailed_pdf(summary) ==
    IF {"tax_rate", "estimated_tax", "deductions"} \subseteq DOMAIN summary
    THEN "pdf" ELSE "KeyError"

\* Reports: the three report types; `export` is the report's PDF button.
Reports ==
    /\ LoggedIn
    /\ \E export \in BOOLEAN :
        \/ LET summary == tax_summary(user_data, expenses_data)
           IN  view' = [page |-> "Reports", report_type |-> "Tax Summary",
                        tax_summary |-> summary,
                        export |-> IF export THEN generate_detailed_pdf(summary)
                                   ELSE "none"]
        \* The period filter and the trends depend on dates: not modelled.
        \/ /\ ~export
           /\ view' = [page |-> "Reports", report_type |-> "Expense Analysis",
                       has_expenses |-> expenses_data # EmptyBag]
        \/ LET summary == deductions_summary(user_data, expenses_data)
           IN  view' = [page |-> "Reports", report_type |-> "Deductions Overview",
                        deductions_summary |-> summary,
                        export |-> IF export THEN generate_detailed_pdf(summary)
                                   ELSE "none"]
    /\ UNCHANGED <<session_state, accounts, users, expenses, calls>>

Next ==
    \/ LoginScreen
    \/ Login
    \/ SignUp
    \/ Logout
    \/ Dashboard
    \/ IncomeAndDeductions
    \/ Expenses
    \/ TaxCalculator
    \/ Reports

Spec == Init /\ [][Next]_vars

----------------------------------------------------------------------------
\* calculate_tax_bracket as a function of its argument: two calls, side by
\* side, on incomes drawn from IncomeInputs.

\* The incomes of the direct calls: below zero, below the first bracket, each
\* bracket's upper bound u with u + 0.50 and u + 1, and the incomes of the
\* worked scenarios.
IncomeInputs ==
    {-R(1), -HalfRand, 0, HalfRand, R(1), R(100000), R(300000), R(2000000)}
        \cup { R(tax_brackets[i][2]) + d :
                 i \in 1..(Len(tax_brackets) - 1), d \in {0, HalfRand, R(1)} }

\* A call of calculate_tax_bracket(income): the function has no raise on any
\* path, so every call returns its pair.
Call(income) == [outcome |-> "returned", value |-> calculate_tax_bracket(income)]

InitTax ==
    /\ session_state = NoUser
    /\ accounts = {}
    /\ users = [u \in Emails |-> NoDoc]
    /\ expenses = [u \in Emails |-> EmptyBag]
    /\ view = [page |-> "none"]
    /\ \E a \in IncomeInputs, b \in IncomeInputs :
          calls = [phase |-> "ready", a |-> a, b |-> b]

CallTaxBracket ==
    /\ calls.phase = "ready"
    /\ calls' = [phase |-> "done", a |-> calls.a, b |-> calls.b,
                 ra |-> Call(calls.a), rb |-> Call(calls.b)]
    /\ UNCHANGED <<session_state, accounts, users, expenses, view>>

NextTax == CallTaxBracket

SpecTax == InitTax /\ [][NextTax]_vars

----------------------------------------------------------------------------
\* Properties of calculate_tax_bracket (checked under SpecTax)

\* The direct calls have returned.
CallsDone == calls.phase = "done"

\* C1: calculate_tax_bracket is monotonically non-decreasing in income: for
\* non-negative incomes a <= b, whole or not, the tax for a is at most the
\* tax for b.
C1_Monotone ==
    (CallsDone /\ 0 <= calls.a /\ calls.a <= calls.b)
        => calls.ra.value[1] <= calls.rb.value[1]

\* C2: a negative income yields an InvalidInput failure and never a computed
\* (tax, rate) pair.
C2_NegativeRejected ==
    (CallsDone /\ calls.a < 0) => calls.ra.outcome = "InvalidInput"

\* C3: for an income inside a bracket [lowerBound, upperBound] the result is
\* baseTaxAtLowerBound + (income - lowerBound + 1) * marginalRate with that
\* bracket's rate; with no such bracket it is (0, 0); income 100000 gives
\* 18000.00 at 0.18.
C3_BracketFormula ==
    CallsDone =>
        LET income  == calls.a
            Inside(i) == /\ tax_brackets[i][1] * Unit <= income
                         /\ (i = Len(tax_brackets) \/ income <= tax_brackets[i][2] * Unit)
            Owed(i) == tax_brackets[i][4] * Unit
                         + ((income - tax_brackets[i][1] * Unit + Unit) \div 100)
                               * tax_brackets[i][3]
        IN  /\ \A i \in DOMAIN tax_brackets :
                 Inside(i) => calls.ra.value = <<Owed(i), tax_brackets[i][3]>>
            /\ (\A i \in DOMAIN tax_brackets : ~Inside(i)) => calls.ra.value = <<0, 0>>
            /\ income = 100000 * Unit => calls.ra.value = <<18000 * Unit, 18>>

\* C3 witness: income 100000 was taxed 18000.00 at 18%, next to an income
\* below the first bracket that got (0, 0).
C3_Witness ==
    /\ CallsDone
    /\ calls.a = R(100000) /\ calls.ra.value = <<R(18000), 18>>
    /\ calls.b = HalfRand /\ calls.rb.value = <<0, 0>>

\* C4 as stated: income 300000 falls in bracket 2 (rate 0.26, base 42678) and
\* the tax is 59058.26.
C4_Scenario1_AsStated ==
    (CallsDone /\ calls.a = R(300000))
        => calls.ra.value = <<R(59058) + 26 * (Unit \div 100), 26>>

\* C4 amended: income 300000 falls in bracket 2 (237101-370500, rate 0.26,
\* base 42678) and the tax is 42678 + 62900 * 0.26 = 59032.00.
C4_Scenario1 ==
    (CallsDone /\ calls.a = R(300000))
        => /\ {i \in DOMAIN tax_brackets : InBracket(tax_brackets[i], calls.a)} = {2}
           /\ tax_brackets[2] = <<237101, 370500, 26, 42678>>
           /\ calls.ra.value = <<R(59032), 26>>

\* C4 witness: the call on income 300000 has returned 59032.00 at 26%.
C4_Witness ==
    CallsDone /\ calls.a = R(300000) /\ calls.ra.value = <<R(59032), 26>>

\* C5: every income at or above the first bracket's lower bound matches
\* exactly one bracket, and the no-match result (0, 0) occurs only below the
\* first lower bound: no income falls into a gap between brackets.
C5_NoGaps ==
    CallsDone =>
        /\ calls.a >= R(tax_brackets[1][1]) =>
              Cardinality({i \in DOMAIN tax_brackets :
                              InBracket(tax_brackets[i], calls.a)}) = 1
        /\ calls.ra.value = <<0, 0>> => calls.a < R(tax_brackets[1][1])

\* C6: the table is consistent: for consecutive brackets i, i+1 the lower
\* bound of i+1 is the upper bound of i plus one, the rate of i+1 is larger,
\* and the base tax of i+1 is the tax computed at the upper bound of i; so
\* the tax at lowerBound(i+1) exceeds the tax at upperBound(i) by one unit
\* times the rate of i+1.
C6_TableConsistent ==
    /\ \A i \in 1..(Len(tax_brackets) - 1) :
          /\ tax_brackets[i + 1][1] = tax_brackets[i][2] + 1
          /\ tax_brackets[i + 1][3] > tax_brackets[i][3]
          /\ R(tax_brackets[i + 1][4]) = calculate_tax_bracket(R(tax_brackets[i][2]))[1]
    /\ CallsDone =>
          \A i \in 1..(Len(tax_brackets) - 1) :
              (calls.a = R(tax_brackets[i][2]) /\ calls.b = R(tax_brackets[i + 1][1]))
                  => /\ calls.ra.value[1] = R(tax_brackets[i + 1][4])
                     /\ calls.rb.value[1] - calls.ra.value[1]
                            = tax_brackets[i + 1][3] * (Unit \div 100)

\* C6 witness: the calls at 237100 and 237101 have returned, 0.26 apart.
C6_Witness ==
    /\ CallsDone
    /\ calls.a = R(237100) /\ calls.b = R(237101)
    /\ calls.ra.value = <<R(42678), 18>>
    /\ calls.rb.value = <<R(42678) + 26 * (Unit \div 100), 26>>

----------------------------------------------------------------------------
\* Properties of the deduction figures (checked under Spec)

\* The last run drew the Tax Calculator page.
OnTaxCalculator == view.page = "Tax Calculator"

\* The last run drew the Deductions Overview report.
OnDeductionsOverview ==
    view.page = "Reports" /\ view.report_type = "Deductions Overview"

\* The saved details of the user whose page was drawn.
Saved(field) == Get(users[session_state["user"].localId], field)

\* C7: the retirement deduction is min(retirementContributions,
\* 0.275 * grossIncome, 350000): it exceeds none of the three and equals one
\* of them; contributions 400000 with gross income 1000000 give 275000.
C7_RetirementCap ==
    OnDeductionsOverview =>
        LET contributed == Saved("retirement_contributions")
            percentage  == (Saved("gross_income") \div 40) * 11
            ceiling     == 350000 * Unit
            deduction   == view.deductions_summary.RetirementContributions
        IN  /\ deduction <= contributed
            /\ deduction <= percentage
            /\ deduction <= ceiling
            /\ deduction \in {contributed, percentage, ceiling}
            /\ (contributed = 400000 * Unit /\ Saved("gross_income") = 1000000 * Unit)
                  => deduction = 275000 * Unit

\* C7 witness: the report shows 275000 for contributions of 400000 on a
\* gross income of 1000000.
C7_Witness ==
    /\ OnDeductionsOverview
    /\ Saved("retirement_contributions") = R(400000)
    /\ Saved("gross_income") = R(1000000)
    /\ view.deductions_summary.RetirementContributions = R(275000)

C9_MedicalCreditEverywhere ==
    LET contributions == Saved("medical_aid_contributions")
        credits == {contributions \div 4, 3 * contributions}
        others  == Saved("work_from_home") + Saved("professional_fees")
        retirements == {Saved("retirement_contributions"),
                        Min3(Saved("retirement_contributions"),
                             (Saved("gross_income") \div 40) * 11,
                             350000 * Unit)}
    IN  /\ OnDeductionsOverview =>
              view.deductions_summary.MedicalAidCredits \in credits
        /\ OnTaxCalculator =>
              \E credit \in credits, retirement \in retirements :
                  view.total_deductions = retirement + credit + others

\* C10: the total subtracted from gross income is the capped retirement
\* deduction plus work-from-home and professional fees plus the 'Transport'
\* and 'Home Office' roll-ups (with medical aid in any of its readings); the
\* final tax is the tax on gross income minus that claimable total, and the
\* estimated tax is the tax on gross income.
C10_TotalFromCappedFigures ==
    OnTaxCalculator =>
        LET exps == expenses[session_state["user"].localId]
            capped == Min3(Saved("retirement_contributions"),
                           (Saved("gross_income") \div 40) * 11,
                           350000 * Unit)
            rollups == SumOfType(exps, "Transport") + SumOfType(exps, "Home Office")
            medical == {0, Saved("medical_aid_contributions"),
                        Saved("medical_aid_contributions") \div 4,
                        3 * Saved("medical_aid_contributions")}
            totals == {capped + Saved("work_from_home") + Saved("professional_fees")
                          + rollups + m : m \in medical}
        IN  /\ view.total_deductions \in totals
            /\ \E t \in totals :
                  view.final_tax =
                      calculate_tax_bracket(
                          Saved("gross_income") - Min3(t, t, Saved("gross_income")))[1]
            /\ view.tax_amount = calculate_tax_bracket(Saved("gross_income"))[1]

\* C11: deductions never increase tax: on the Tax Calculator page the final
\* tax (the tax on max(0, gross income - total deductions)) is at most the
\* estimated tax (the tax on gross income).
C11_DeductionsNeverIncreaseTax ==
    OnTaxCalculator => view.final_tax <= view.tax_amount

----------------------------------------------------------------------------
\* Properties of the session (checked under Spec)

\* The pages that read or write the user's Firestore data.
DataPages ==
    {"Dashboard", "Income & Deductions", "Expenses", "Tax Calculator", "Reports"}

\* C12: session gate.  A run executes a data page, or changes the user's
\* document or expenses, only with a 'user' entry in the session state; the
\* entry is created only by a Login whose email has an account (a Sign Up
\* changes the accounts and never the session); a Logout leaves no entry, and
\* a run without an entry shows only the login screen.
C12_SessionGate ==
    [][ /\ (view'.page \in DataPages \/ users' # users \/ expenses' # expenses)
            => ("user" \in DOMAIN session_state /\ "user" \in DOMAIN session_state')
        /\ ("user" \notin DOMAIN session_state /\ "user" \in DOMAIN session_state')
            => /\ session_state'["user"].email \in accounts
               /\ session_state'["user"].localId = session_state'["user"].email
               /\ accounts' = accounts
               /\ view' = [page |-> "Login", message |-> "Logged in successfully!"]
        /\ accounts' # accounts
            => (session_state' = session_state /\ "user" \notin DOMAIN session_state')
        /\ ("user" \in DOMAIN session_state /\ "user" \notin DOMAIN session_state')
            => view' = [page |-> "Login"]
        /\ "user" \notin DOMAIN session_state => view'.page = "Login"
      ]_vars

\* C12 witness: a user with an account has saved details in a session and
\* logged out: the entry is gone and the login screen is shown.
C12_Witness ==
    /\ "user" \notin DOMAIN session_state
    /\ view = [page |-> "Login"]
    /\ \E u \in accounts : DOMAIN users[u] # {} /\ expenses[u] # EmptyBag

====
